---- MODULE Spec2Model ----
(***************************************************************************)
(* Event Storyboard API: the document store adapter (backend/database.py)  *)
(* and the request handlers that use it (backend/main.py), with the        *)
(* schema dumps of backend/schemas.py.                                     *)
(*                                                                         *)
(* A handler is a coroutine: it runs atomically up to its next store round *)
(* trip (an await on the Mongo driver), where other requests may run.      *)
(* Every action below is one such uninterrupted stretch of one handler.    *)
(***************************************************************************)
EXTENDS Integers, Sequences, FiniteSets, TLC

VARIABLES
    db,       \* collection name -> sequence of stored documents (insertion order)
    nextId,   \* the next ObjectId the store assigns
    now,      \* datetime.utcnow(), in days
    pc,       \* per request task: "idle" or the await it is suspended at
    req,      \* per request task: the request it is serving
    loc,      \* per request task: the handler's locals that live across an await
    last,     \* the request task that ran the latest step
    served,   \* the request the latest step answered, if it answered one
    ret,      \* what the adapter call of that request returned
    resp      \* the HTTP response to that request

vars == <<db, nextId, now, pc, req, loc, last, served, ret, resp>>

----------------------------------------------------------------------------
(* Bounds of the model *)

MaxDocs == 2          \* documents inserted in one behaviour
MaxTime == 15         \* the clock stops here
TickDays == 15        \* the clock advances in steps of this many days
MaxSlides == 2        \* slides of a project drawn for the export

Procs == {1, 2}       \* concurrent request tasks

(* Program constants *)

DefaultLimit == 100   \* get_documents(..., limit=100)
ShareDays == 14       \* timedelta(days=14)

NONE == "None"        \* Python None

Collections == {"user", "project", "mediaasset", "sharelink"}

----------------------------------------------------------------------------
(* Values *)

EmptyDoc == [k \in {} |-> NONE]       \* the dict {}

\* str(ObjectId): the printed form of the identifier, never the identifier
OidStr(oid) == "oid" \o ToString(oid)

Min(a, b) == IF a < b THEN a ELSE b

----------------------------------------------------------------------------
(* The Mongo driver: one call is one round trip *)

\* a document matches an equality filter; {k: None} also matches a missing k
Matches(doc, filt) ==
    \A k \in DOMAIN filt :
        IF k \in DOMAIN doc THEN doc[k] = filt[k] ELSE filt[k] = NONE

FindAll(docs, filt) == SelectSeq(docs, LAMBDA d : Matches(d, filt))

\* find_one: the first match in storage order, as a sequence of length <= 1
FindOne(docs, filt) ==
    LET m == FindAll(docs, filt) IN IF m = <<>> THEN <<>> ELSE <<m[1]>>

\* cursor.limit(n)
Limit(docs, n) == SubSeq(docs, 1, Min(n, Len(docs)))

\* index of the first match, 0 if none
FirstMatch(docs, filt) ==
    IF \E i \in 1..Len(docs) : Matches(docs[i], filt)
    THEN CHOOSE i \in 1..Len(docs) :
            /\ Matches(docs[i], filt)
            /\ \A j \in 1..(i - 1) : ~Matches(docs[j], filt)
    ELSE 0

\* {"$set": data} on one document
SetFields(doc, data) ==
    [k \in DOMAIN doc \cup DOMAIN data |->
        IF k \in DOMAIN data THEN data[k] ELSE doc[k]]

\* update_one(filter, {"$set": data})
UpdateOne(docs, filt, data) ==
    LET i == FirstMatch(docs, filt) IN
    IF i = 0 THEN docs ELSE [docs EXCEPT ![i] = SetFields(@, data)]

\* delete_many in place of delete_one: every match goes
DeleteMany(docs, filt) == SelectSeq(docs, LAMBDA d : ~Matches(d, filt))

\* delete_one(filter): the remaining documents
DeleteOne(docs, filt) ==
    LET i == FirstMatch(docs, filt) IN
    IF i = 0 THEN docs
    ELSE SubSeq(docs, 1, i - 1) \o SubSeq(docs, i + 1, Len(docs))

\* res.deleted_count
DeletedCount(docs, filt) == IF FirstMatch(docs, filt) = 0 THEN 0 ELSE 1

\* insert_one(data): the driver adds the assigned _id
Inserted(data, oid) == ("_id" :> oid) @@ data

----------------------------------------------------------------------------
(* The adapter's own code (backend/database.py) *)

\* doc.setdefault("id", ...) in place of the assignment: a stored `id` stays
NormalizeKeepsId(doc) ==
    [k \in (DOMAIN doc \ {"_id"}) \cup {"id"} |->
        IF k = "id" /\ "id" \notin DOMAIN doc THEN OidStr(doc["_id"]) ELSE doc[k]]

\* doc["id"] = str(doc.pop("_id"))
Normalize(doc) ==
    [k \in (DOMAIN doc \ {"_id"}) \cup {"id"} |->
        IF k = "id" THEN OidStr(doc["_id"]) ELSE doc[k]]

\* the re-read document returned as the driver gave it
CreateResultRaw(found) ==
    IF found # <<>> THEN found[1] ELSE EmptyDoc

\* create_document after the re-read: `if doc: ...; return doc or {}`
CreateResult(found) ==
    IF found # <<>> THEN Normalize(found[1]) ELSE EmptyDoc

\* get_documents: the normalized matches, at most `limit` of them
GetDocuments(docs, filt, limit) ==
    LET m == Limit(FindAll(docs, filt), limit) IN
    [i \in 1..Len(m) |-> Normalize(m[i])]

\* get_document: <<>> is None
GetDocument(docs, filt) ==
    LET found == FindOne(docs, filt) IN
    IF found = <<>> THEN <<>> ELSE <<Normalize(found[1])>>

----------------------------------------------------------------------------
(* Schema dumps (backend/schemas.py): model.dict() has every declared field *)

\* User(email=..., name=..., provider=..., hashed_password=...).dict()
UserDump(email, name, provider, hashed, t) ==
    [id |-> NONE, email |-> email, name |-> name, provider |-> provider,
     hashed_password |-> hashed, created_at |-> t]

\* Project(**body).dict() with created_at, updated_at set by the handler;
\* body carries the fields a client sends: id, owner_id, title, slides
ProjectDump(body, t) ==
    [id |-> body.id, owner_id |-> body.owner_id, title |-> body.title,
     date |-> NONE, location |-> NONE, platform |-> NONE, mood |-> NONE,
     theme_id |-> NONE, slides |-> body.slides, collaborators |-> <<>>,
     created_at |-> t, updated_at |-> t]

\* MediaAsset(owner_id=..., project_id=..., url=..., type=..., name=...).dict()
MediaAssetDump(owner, project, url, type, name, t) ==
    [id |-> NONE, owner_id |-> owner, project_id |-> project, url |-> url,
     type |-> type, name |-> name, created_at |-> t]

\* ShareLink(project_id=..., token=..., role=..., created_at=now,
\*           expires_at=now + timedelta(days=14)).dict()
ShareLinkDump(project, token, role, t) ==
    [id |-> NONE, project_id |-> project, token |-> token, role |-> role,
     created_at |-> t, expires_at |-> t + ShareDays]

\* Model(**doc) as the response: a doc without the required fields is a
\* validation error, which the framework answers with 500
ModelResponse(doc, required) ==
    IF required \subseteq DOMAIN doc
    THEN [status |-> 200, body |-> <<doc>>]
    ELSE [status |-> 500, body |-> <<>>]

\* raise HTTPException(status_code=..., ...)
HttpError(status) == [status |-> status, body |-> <<>>]

\* create_access_token({"sub": doc["id"], "email": doc["email"]});
\* doc["id"] on a doc without it is a KeyError, answered with 500
TokenResponse(doc) ==
    IF {"id", "email"} \subseteq DOMAIN doc
    THEN [status |-> 200, body |-> <<[sub |-> doc["id"], email |-> doc["email"]]>>]
    ELSE [status |-> 500, body |-> <<>>]

----------------------------------------------------------------------------
(* Request tasks *)

NoReq == [op |-> "none"]
NoLoc == [at |-> "none"]
NoRet == [fn |-> "none", coll |-> NONE, filt |-> EmptyDoc, docs |-> <<>>, ok |-> FALSE]
NoResp == [status |-> 0, body |-> <<>>]

Ret(fn, coll, filt, docs, ok) ==
    [fn |-> fn, coll |-> coll, filt |-> filt, docs |-> docs, ok |-> ok]

\* bookkeeping of one step of task p
Ran(p) == last' = p

\* task p suspends at label l while serving r
Suspend(p, r, l, locals) ==
    /\ pc' = [pc EXCEPT ![p] = l]
    /\ req' = [req EXCEPT ![p] = r]
    /\ loc' = [loc EXCEPT ![p] = locals]
    /\ served' = NoReq
    /\ ret' = NoRet
    /\ resp' = NoResp
    /\ Ran(p)

\* task p answers request r and is idle again
Serve(p, r, adapterRet, response) ==
    /\ pc' = [pc EXCEPT ![p] = "idle"]
    /\ req' = [req EXCEPT ![p] = NoReq]
    /\ loc' = [loc EXCEPT ![p] = NoLoc]
    /\ served' = r
    /\ ret' = adapterRet
    /\ resp' = response
    /\ Ran(p)

\* task p accepts request r and runs to its first await, at label l
Begin(p, r, l, locals) == Suspend(p, r, l, locals)

\* task p, resumed, answers its request
Finish(p, adapterRet, response) == Serve(p, req[p], adapterRet, response)

\* task p, resumed, suspends again at label l
Continue(p, l, locals) == Suspend(p, req[p], l, locals)

\* create_document up to the insert_one round trip
InsertStep(coll, data) ==
    /\ nextId <= MaxDocs
    /\ db' = [db EXCEPT ![coll] = Append(@, Inserted(data, nextId))]
    /\ nextId' = nextId + 1

CreateLocals(coll, data) ==
    [at |-> "create", coll |-> coll, oid |-> nextId, data |-> data]

----------------------------------------------------------------------------
(* What clients send *)

BodyIds == {NONE, "a"}          \* the optional `id` of a request body
Owners == {"u1"}
Titles == {"t1", "t2"}
Roles == {"viewer"}
Files == {[filename |-> "f.png", content_type |-> <<"image", "png">>]}

ProjectBodies ==
    [id : BodyIds, owner_id : Owners, title : Titles, slides : {<<>>}]

\* identifiers a client can put in a path: any string, or an id it was given
KnownIds == {"a"} \cup {OidStr(n) : n \in 1..(nextId - 1)}

\* secrets.token_urlsafe(16): a fresh token per link
NewToken == "tok" \o ToString(nextId)

KnownTokens == {"tok0"} \cup {"tok" \o ToString(n) : n \in 1..(nextId - 1)}

----------------------------------------------------------------------------
(* create_document, second round trip: the re-read by the assigned _id,    *)
(* and the rest of the handler that called it                              *)

\* what the calling handler answers with the created document
CreatedResponse(r, doc) ==
    CASE r.op = "create_project" ->
            ModelResponse(doc, {"owner_id", "title"})
      [] r.op = "upload_media" ->
            ModelResponse(doc, {"owner_id", "url", "type"})
      [] r.op = "create_share_link" ->
            ModelResponse(doc, {"project_id", "token"})
      [] OTHER -> TokenResponse(doc)

CreateFind(p) ==
    /\ pc[p] = "create_find"
    /\ LET found == FindOne(db[loc[p].coll], [_id |-> loc[p].oid])
           doc == CreateResult(found)
       IN Finish(p, Ret("create", loc[p].coll, EmptyDoc, <<doc>>, FALSE),
                 CreatedResponse(req[p], doc))
    /\ UNCHANGED <<db, nextId, now>>

----------------------------------------------------------------------------
(* Projects CRUD *)

\* POST /projects
CreateProject(p, body) ==
    /\ pc[p] = "idle"
    /\ LET data == ProjectDump(body, now) IN
        /\ InsertStep("project", data)
        /\ Begin(p, [op |-> "create_project", body |-> body], "create_find",
                 CreateLocals("project", data))
    /\ UNCHANGED now

\* GET /projects
ListProjects(p, owner) ==
    /\ pc[p] = "idle"
    /\ LET filt == IF owner # NONE THEN [owner_id |-> owner] ELSE EmptyDoc
           docs == GetDocuments(db["project"], filt, DefaultLimit)
       IN Serve(p, [op |-> "list_projects", owner_id |-> owner],
                Ret("list", "project", filt, docs, FALSE),
                [status |-> 200, body |-> docs])
    /\ UNCHANGED <<db, nextId, now>>

\* GET /projects/{project_id}
GetProject(p, pid) ==
    /\ pc[p] = "idle"
    /\ LET filt == [id |-> pid]
           proj == GetDocument(db["project"], filt)
       IN Serve(p, [op |-> "get_project", project_id |-> pid],
                Ret("get_one", "project", filt, proj, FALSE),
                IF proj = <<>> THEN HttpError(404)
                ELSE ModelResponse(proj[1], {"owner_id", "title"}))
    /\ UNCHANGED <<db, nextId, now>>

\* update_document, first round trip: update_one
UpdateStep(coll, filt, data) ==
    db' = [db EXCEPT ![coll] = UpdateOne(@, filt, data)]

\* the _id of the document update_one writes, 0 if the filter matches none
\* (the adapter discards the driver's result; kept to state what was updated)
UpdateTarget(docs, filt) ==
    LET i == FirstMatch(docs, filt) IN IF i = 0 THEN 0 ELSE docs[i]["_id"]

\* update_document, second round trip: get_document with the same filter
UpdateResult(docs, filt) == GetDocument(docs, filt)

\* PUT /projects/{project_id}
UpdateProject(p, pid, body) ==
    /\ pc[p] = "idle"
    /\ LET filt == [id |-> pid]
           data == ProjectDump(body, now)
       IN /\ UpdateStep("project", filt, data)
          /\ Begin(p, [op |-> "update_project", project_id |-> pid, body |-> body],
                   "update_find",
                   [at |-> "update", coll |-> "project", filt |-> filt, data |-> data,
                    target |-> UpdateTarget(db["project"], filt)])
    /\ UNCHANGED <<nextId, now>>

UpdateFind(p) ==
    /\ pc[p] = "update_find"
    /\ LET updated == UpdateResult(db[loc[p].coll], loc[p].filt) IN
        Finish(p, Ret("update", loc[p].coll, loc[p].filt, updated, FALSE),
               IF updated = <<>> THEN HttpError(404)
               ELSE ModelResponse(updated[1], {"owner_id", "title"}))
    /\ UNCHANGED <<db, nextId, now>>

\* delete_document: delete_one, then `return res.deleted_count == 1`
DeleteResult(docs, filt) == DeletedCount(docs, filt) = 1

\* DELETE /projects/{project_id}
DeleteProject(p, pid) ==
    /\ pc[p] = "idle"
    /\ LET filt == [id |-> pid]
           ok == DeleteResult(db["project"], filt)
       IN /\ db' = [db EXCEPT !["project"] = DeleteOne(@, filt)]
          /\ Serve(p, [op |-> "delete_project", project_id |-> pid],
                   Ret("delete", "project", filt, <<>>, ok),
                   [status |-> 200, body |-> <<[success |-> ok]>>])
    /\ UNCHANGED <<nextId, now>>

----------------------------------------------------------------------------
(* Media *)

\* POST /media/upload (the file itself goes to local disk; the random part of
\* its name is left out)
UploadMedia(p, owner, project, file) ==
    /\ pc[p] = "idle"
    /\ LET type == IF file.content_type[1] = "video" THEN "video" ELSE "image"
           data == MediaAssetDump(owner, project, "uploads_" \o file.filename,
                                  type, file.filename, now)
       IN /\ InsertStep("mediaasset", data)
          /\ Begin(p, [op |-> "upload_media", owner_id |-> owner,
                       project_id |-> project],
                   "create_find", CreateLocals("mediaasset", data))
    /\ UNCHANGED now

\* GET /media
ListMedia(p, owner, project) ==
    /\ pc[p] = "idle"
    /\ LET f1 == IF owner # NONE THEN [owner_id |-> owner] ELSE EmptyDoc
           filt == IF project # NONE THEN f1 @@ [project_id |-> project] ELSE f1
           docs == GetDocuments(db["mediaasset"], filt, DefaultLimit)
       IN Serve(p, [op |-> "list_media", owner_id |-> owner, project_id |-> project],
                Ret("list", "mediaasset", filt, docs, FALSE),
                [status |-> 200, body |-> docs])
    /\ UNCHANGED <<db, nextId, now>>

----------------------------------------------------------------------------
(* Share links *)

\* POST /share
CreateShareLink(p, project, role) ==
    /\ pc[p] = "idle"
    /\ LET data == ShareLinkDump(project, NewToken, role, now) IN
        /\ InsertStep("sharelink", data)
        /\ Begin(p, [op |-> "create_share_link", project_id |-> project,
                     role |-> role],
                 "create_find", CreateLocals("sharelink", data))
    /\ UNCHANGED now

\* GET /share/{token}, up to the project lookup
GetSharedProject(p, token) ==
    /\ pc[p] = "idle"
    /\ LET filt == [token |-> token]
           links == GetDocuments(db["sharelink"], filt, 1)
           r == [op |-> "get_shared_project", token |-> token]
       IN IF links = <<>>
          THEN Serve(p, r, Ret("list", "sharelink", filt, links, FALSE),
                     HttpError(404))
          ELSE Begin(p, r, "share_project", [at |-> "share", link |-> links[1]])
    /\ UNCHANGED <<db, nextId, now>>

\* GET /share/{token}, the project lookup by link["project_id"]
SharedProjectFind(p) ==
    /\ pc[p] = "share_project"
    /\ LET filt == [id |-> loc[p].link["project_id"]]
           proj == GetDocument(db["project"], filt)
       IN Finish(p, Ret("get_one", "project", filt, proj, FALSE),
                 IF proj = <<>> THEN HttpError(404)
                 ELSE ModelResponse(proj[1], {"owner_id", "title"}))
    /\ UNCHANGED <<db, nextId, now>>

----------------------------------------------------------------------------
(* Auth *)

Emails == {"e1", "e2"}
Passwords == {NONE, "pw1", "pw2"}

\* pwd_context.hash(secret); a missing password is replaced by random hex
Hash(password) == IF password = NONE THEN "hash:random" ELSE "hash:" \o password

\* pwd_context.verify(secret, hash); a None hash never verifies
Verify(password, hashed) == hashed # NONE /\ hashed = "hash:" \o password

\* register without the pre-check's raise
RegisterAlwaysInserts(existing) == TRUE

\* register after the pre-check: `if existing: raise HTTPException(400)`
RegisterMayInsert(existing) == existing = <<>>

\* POST /auth/register, up to the insert: the pre-check get_documents(..., 1)
RegisterCheck(p, email, password) ==
    /\ pc[p] = "idle"
    /\ LET filt == [email |-> email]
           existing == GetDocuments(db["user"], filt, 1)
           r == [op |-> "register", email |-> email, password |-> password]
       IN IF RegisterMayInsert(existing)
          THEN Begin(p, r, "register_insert",
                     [at |-> "register",
                      data |-> UserDump(email, NONE, "email", Hash(password), now)])
          ELSE Serve(p, r, Ret("list", "user", filt, existing, FALSE), HttpError(400))
    /\ UNCHANGED <<db, nextId, now>>

\* POST /auth/register: create_document's insert_one
RegisterInsert(p) ==
    /\ pc[p] = "register_insert"
    /\ InsertStep("user", loc[p].data)
    /\ Continue(p, "create_find", CreateLocals("user", loc[p].data))
    /\ UNCHANGED now

\* POST /auth/login
Login(p, email, password) ==
    /\ pc[p] = "idle"
    /\ LET filt == [email |-> email]
           users == GetDocuments(db["user"], filt, 1)
       IN Serve(p, [op |-> "login", email |-> email, password |-> password],
                Ret("list", "user", filt, users, FALSE),
                IF users = <<>> THEN HttpError(400)
                ELSE IF password = NONE
                        \/ ~Verify(password, users[1]["hashed_password"])
                     THEN HttpError(400)
                     ELSE TokenResponse(users[1]))
    /\ UNCHANGED <<db, nextId, now>>

\* POST /auth/google, up to the insert: the id_token is taken as the email
SsoCheck(p, email) ==
    /\ pc[p] = "idle"
    /\ LET filt == [email |-> email]
           users == GetDocuments(db["user"], filt, 1)
           r == [op |-> "google_sso", email |-> email]
       IN IF users # <<>>
          THEN Serve(p, r, Ret("list", "user", filt, users, FALSE),
                     TokenResponse(users[1]))
          ELSE Begin(p, r, "sso_insert",
                     [at |-> "sso",
                      data |-> UserDump(email, NONE, "google", NONE, now)])
    /\ UNCHANGED <<db, nextId, now>>

\* POST /auth/google: create_document's insert_one
SsoInsert(p) ==
    /\ pc[p] = "sso_insert"
    /\ InsertStep("user", loc[p].data)
    /\ Continue(p, "create_find", CreateLocals("user", loc[p].data))
    /\ UNCHANGED now

----------------------------------------------------------------------------
(* Export *)

\* the slide keys the renderer reads, with one value each
Slides ==
    UNION {[keys -> {"x"}] : keys \in SUBSET {"bg", "text", "color"}}

SlideValue(k) ==
    CASE k = "bg" -> "#ff0000" [] k = "text" -> "Welcome" [] OTHER -> "#00ff00"

SlideSet == {[k \in DOMAIN s |-> SlideValue(k)] : s \in Slides}

SlideLists == UNION {[1..n -> SlideSet] : n \in 0..MaxSlides}

\* what a client can send as `format`
Formats == {"images", "video", "pptx", "gif", ""}

\* SlideExportRequest.format: Literal['images', 'video', 'pptx']
FormatLiteral == {"images", "video", "pptx"}

\* dict.get(key, default)
Get(d, k, default) == IF k \in DOMAIN d THEN d[k] ELSE default

\* `slides or [{}]`
SlidesOrDefault(slides) == IF slides = <<>> THEN <<EmptyDoc>> ELSE slides

\* the default text counted from 0
DefaultTextZeroBased(idx) == "Slide " \o ToString(idx - 1)

\* f'Slide {idx}'
DefaultText(idx) == "Slide " \o ToString(idx)

\* f'slide_{idx}.png'
EntryName(idx) == "slide_" \o ToString(idx) \o ".png"

\* one image of the archive: canvas, fill, text at (50, 50), PNG, zip entry
RenderImage(idx, s) ==
    [name |-> EntryName(idx), size |-> <<1080, 1920>>,
     bg |-> Get(s, "bg", "#111827"),
     text |-> Get(s, "text", DefaultText(idx)),
     color |-> Get(s, "color", "#ffffff"), at |-> <<50, 50>>]

\* the images branch walking the slides last to first
RenderImagesReversed(slides) ==
    LET ss == SlidesOrDefault(slides) IN
    [media_type |-> "application/zip", filename |-> "slides.zip",
     parts |-> [idx \in 1..Len(ss) |-> RenderImage(idx, ss[Len(ss) + 1 - idx])]]

\* the images branch: enumerate(slides or [{}], start=1)
RenderImages(slides) ==
    LET ss == SlidesOrDefault(slides) IN
    [media_type |-> "application/zip", filename |-> "slides.zip",
     parts |-> [idx \in 1..Len(ss) |-> RenderImage(idx, ss[idx])]]

\* one page of the deck: a text box holding the slide's text
RenderPage(idx, s) == [text |-> Get(s, "text", DefaultText(idx))]

\* the pptx branch
RenderDeck(slides) ==
    LET ss == SlidesOrDefault(slides) IN
    [media_type |->
        "application/vnd.openxmlformats-officedocument.presentationml.presentation",
     filename |-> "storyboard.pptx",
     parts |-> [idx \in 1..Len(ss) |-> RenderPage(idx, ss[idx])]]

\* export_storyboard after the project lookup
ExportResponse(proj, format) ==
    IF proj = <<>> THEN HttpError(404)
    ELSE LET slides == Get(proj[1], "slides", <<>>) IN
         CASE format = "images" -> [status |-> 200, body |-> <<RenderImages(slides)>>]
           [] format = "pptx" -> [status |-> 200, body |-> <<RenderDeck(slides)>>]
           [] format = "video" -> HttpError(501)
           [] OTHER -> HttpError(400)

\* POST /export: the body is validated against SlideExportRequest before the
\* handler runs; a format outside the Literal is answered 422 by the framework
Export(p, pid, format) ==
    /\ pc[p] = "idle"
    /\ LET filt == [id |-> pid]
           r == [op |-> "export", project_id |-> pid, format |-> format]
       IN IF format \notin FormatLiteral
          THEN Serve(p, r, NoRet, HttpError(422))
          ELSE LET proj == GetDocument(db["project"], filt) IN
               Serve(p, r, Ret("get_one", "project", filt, proj, FALSE),
                     ExportResponse(proj, format))
    /\ UNCHANGED <<db, nextId, now>>

----------------------------------------------------------------------------
\* time passes
Tick ==
    /\ now + TickDays <= MaxTime
    /\ now' = now + TickDays
    /\ UNCHANGED <<db, nextId, pc, req, loc, last, served, ret, resp>>

Init ==
    /\ db = [c \in Collections |-> <<>>]
    /\ nextId = 1
    /\ now = 0
    /\ pc = [p \in Procs |-> "idle"]
    /\ req = [p \in Procs |-> NoReq]
    /\ loc = [p \in Procs |-> NoLoc]
    /\ last = 0
    /\ served = NoReq
    /\ ret = NoRet
    /\ resp = NoResp

Next ==
    \/ \E p \in Procs :
        \/ CreateFind(p)
        \/ \E body \in ProjectBodies : CreateProject(p, body)
        \/ \E owner \in Owners \cup {NONE} : ListProjects(p, owner)
        \/ \E pid \in KnownIds : GetProject(p, pid)
        \/ \E pid \in KnownIds, body \in ProjectBodies : UpdateProject(p, pid, body)
        \/ UpdateFind(p)
        \/ \E pid \in KnownIds : DeleteProject(p, pid)
        \/ \E owner \in Owners, project \in KnownIds \cup {NONE}, file \in Files :
                UploadMedia(p, owner, project, file)
        \/ \E owner \in Owners \cup {NONE}, project \in {"a", NONE} :
                ListMedia(p, owner, project)
        \/ \E project \in KnownIds, role \in Roles : CreateShareLink(p, project, role)
        \/ \E token \in KnownTokens : GetSharedProject(p, token)
        \/ SharedProjectFind(p)

\* projects, media and share links, two requests at a time; the clock, which
\* only stamps records here, stands still (ShareSpec lets it run)
Spec == Init /\ [][Next]_vars

----------------------------------------------------------------------------
(* Share links while time passes *)

ShareNext ==
    \/ \E p \in Procs :
        \/ CreateFind(p)
        \/ \E body \in ProjectBodies : CreateProject(p, body)
        \/ \E pid \in KnownIds : DeleteProject(p, pid)
        \/ \E project \in KnownIds, role \in Roles : CreateShareLink(p, project, role)
        \/ \E token \in KnownTokens : GetSharedProject(p, token)
        \/ SharedProjectFind(p)
    \/ Tick

ShareSpec == Init /\ [][ShareNext]_vars

----------------------------------------------------------------------------
(* Registration, login and single sign-on *)

AuthNext ==
    \E p \in Procs :
        \/ CreateFind(p)
        \/ \E email \in Emails, password \in Passwords : RegisterCheck(p, email, password)
        \/ RegisterInsert(p)
        \/ \E email \in Emails, password \in Passwords : Login(p, email, password)
        \/ \E email \in Emails : SsoCheck(p, email)
        \/ SsoInsert(p)

AuthSpec == Init /\ [][AuthNext]_vars

----------------------------------------------------------------------------
(* Export of one stored project *)

\* the store after one POST /projects, or the empty store
ExportInit ==
    /\ \E body \in [id : BodyIds, owner_id : Owners, title : {"t1"}, slides : SlideLists],
          some \in BOOLEAN :
            /\ db = [c \in Collections |->
                        IF c = "project" /\ some
                        THEN <<Inserted(ProjectDump(body, 0), 1)>> ELSE <<>>]
            /\ (~some => body = [id |-> NONE, owner_id |-> "u1", title |-> "t1",
                                 slides |-> <<>>])
            /\ nextId = IF some THEN 2 ELSE 1
    /\ now = 0
    /\ pc = [p \in Procs |-> "idle"]
    /\ req = [p \in Procs |-> NoReq]
    /\ loc = [p \in Procs |-> NoLoc]
    /\ last = 0
    /\ served = NoReq
    /\ ret = NoRet
    /\ resp = NoResp

ExportNext ==
    \E p \in Procs, pid \in KnownIds, format \in Formats : Export(p, pid, format)

ExportSpec == ExportInit /\ [][ExportNext]_vars

----------------------------------------------------------------------------
(* Properties *)

\* the stored documents of collection c, as a set
Stored(c) == {db[c][j] : j \in 1..Len(db[c])}

\* r is document d as a caller must see it: `id` is the printed _id, there is
\* no `_id`, and every other field is as stored
Exposes(r, d) ==
    /\ DOMAIN r = (DOMAIN d \ {"_id"}) \cup {"id"}
    /\ r["id"] = OidStr(d["_id"])
    /\ \A k \in DOMAIN r \ {"id"} : r[k] = d[k]

\* no create_document is still between its insert and its re-read of d
Created(d) ==
    \A q \in Procs : pc[q] = "create_find" => loc[q].oid # d["_id"]

\* C1: a project that create returned with id i is returned, with the same
\* fields and id i, by GET /projects/{i} when nothing was written in between
C1_RoundTrip ==
    served.op = "get_project" =>
        \A d \in Stored("project") :
            (Created(d) /\ OidStr(d["_id"]) = served.project_id) =>
                /\ resp.status = 200
                /\ Len(ret.docs) = 1
                /\ Exposes(ret.docs[1], d)

\* C2: every record create, list, get_one or update returns has `id`, the
\* printed form of the store-assigned _id of the stored record it shows, and
\* no `_id`
C2_IdNormalized ==
    \A i \in 1..Len(ret.docs) :
        /\ "id" \in DOMAIN ret.docs[i]
        /\ "_id" \notin DOMAIN ret.docs[i]
        /\ \E d \in Stored(ret.coll) : Exposes(ret.docs[i], d)

\* C2, amended: as C2 for every record but the empty record {}, which only
\* create returns (when its re-read finds nothing)
C2_IdNormalizedAmended ==
    \A i \in 1..Len(ret.docs) :
        IF ret.docs[i] = EmptyDoc
        THEN ret.fn = "create"
        ELSE /\ "id" \in DOMAIN ret.docs[i]
             /\ "_id" \notin DOMAIN ret.docs[i]
             /\ \E d \in Stored(ret.coll) : Exposes(ret.docs[i], d)

\* C2 happens: a read returns a record whose own stored `id` field ("a") is
\* replaced by the printed _id
C2_Witness ==
    /\ ret.fn \in {"get_one", "update", "list"}
    /\ \E i \in 1..Len(ret.docs), d \in Stored(ret.coll) :
        /\ d["id"] = "a"
        /\ ret.docs[i]["id"] = OidStr(d["_id"])

\* C6: update writes only the first match and only the fields given; resumed
\* without interruption it returns that same record as now stored, or "not
\* found" when nothing matched
C6_Update ==
    [][\A p \in Procs :
        /\ (pc[p] = "idle" /\ pc'[p] = "update_find") =>
            LET c == loc'[p].coll
                data == loc'[p].data
                t == loc'[p].target
            IN /\ \A o \in Collections \ {c} : db'[o] = db[o]
               /\ Len(db'[c]) = Len(db[c])
               /\ \A j \in 1..Len(db[c]) :
                    IF db[c][j]["_id"] = t
                    THEN /\ \A k \in DOMAIN data : db'[c][j][k] = data[k]
                         /\ \A k \in DOMAIN db[c][j] \ DOMAIN data :
                                db'[c][j][k] = db[c][j][k]
                    ELSE db'[c][j] = db[c][j]
        /\ (pc[p] = "update_find" /\ pc'[p] = "idle" /\ last = p) =>
            IF loc[p].target = 0
            THEN ret'.docs = <<>>
            ELSE /\ Len(ret'.docs) = 1
                 /\ \E d \in Stored(loc[p].coll) :
                        d["_id"] = loc[p].target /\ Exposes(ret'.docs[1], d)
      ]_vars

\* the first document of docs whose stored `id` is pid, 0 if none
FirstWithId(docs, pid) ==
    IF \E j \in 1..Len(docs) : docs[j]["id"] = pid
    THEN CHOOSE j \in 1..Len(docs) :
            docs[j]["id"] = pid /\ \A k \in 1..(j - 1) : docs[k]["id"] # pid
    ELSE 0

\* C7: DELETE /projects/{id} removes the first project the filter matches and
\* nothing else, answers true exactly then, and leaves every other collection
\* as it was
C7_Delete ==
    [][(served'.op = "delete_project" /\ now' = now) =>
        LET old == db["project"]
            new == db'["project"]
            i == FirstWithId(old, served'.project_id)
        IN /\ \A c \in Collections \ {"project"} : db'[c] = db[c]
           /\ IF i = 0
              THEN new = old /\ ret'.ok = FALSE
              ELSE /\ ret'.ok = TRUE
                   /\ Len(new) = Len(old) - 1
                   /\ \A j \in 1..Len(new) :
                        new[j] = IF j < i THEN old[j] ELSE old[j + 1]
      ]_vars

\* C7 happens: a project was deleted and a share link or media asset that
\* names it is still stored
C7_Witness ==
    /\ served.op = "delete_project"
    /\ ret.ok
    /\ \E d \in Stored("sharelink") \cup Stored("mediaasset") :
            d["project_id"] = served.project_id

\* C10: the re-read of create returns the record as stored, which is the
\* inserted record when nothing ran in between; when the record is gone it
\* returns the empty record, and the record stays gone
C10_Create ==
    [][\A p \in Procs :
        (pc[p] = "create_find" /\ pc'[p] = "idle") =>
            LET here == {d \in Stored(loc[p].coll) : d["_id"] = loc[p].oid} IN
            /\ Len(ret'.docs) = 1
            /\ last = p =>
                /\ here = {Inserted(loc[p].data, loc[p].oid)}
            /\ \A d \in here : Exposes(ret'.docs[1], d)
            /\ here = {} =>
                /\ ret'.docs[1] = EmptyDoc
                /\ "id" \notin DOMAIN ret'.docs[1]
                /\ \A c \in Collections : \A j \in 1..Len(db'[c]) :
                        db'[c][j]["_id"] # loc[p].oid
      ]_vars

\* C10 happens: a create came back empty
C10_Witness ==
    /\ ret.fn = "create"
    /\ ret.docs = <<EmptyDoc>>
    /\ served.op = "create_project"

\* C8: a token issued for a stored project answers with that project, at any
\* time, while link and project are stored; a token never issued answers 404
C8_ShareLookup ==
    served.op = "get_shared_project" =>
        LET links == {l \in Stored("sharelink") : l["token"] = served.token} IN
        /\ links = {} => resp.status = 404
        /\ \A l \in links : \A d \in Stored("project") :
            (Created(d) /\ OidStr(d["_id"]) = l["project_id"]) =>
                /\ resp.status = 200
                /\ Len(resp.body) = 1
                /\ Exposes(resp.body[1], d)

\* the stored users with this email
UsersWith(email) == {d \in Stored("user") : d["email"] = email}

\* C9: a register whose pre-check sees the email stored answers 400 and
\* inserts nothing, and a register or sign-on that runs from its pre-check to
\* its insert without another task in between leaves exactly one user with
\* the email
C9_Register ==
    [][\A p \in Procs :
        /\ (pc[p] = "idle" /\ last' = p /\ served'.op = "register"
                /\ UsersWith(served'.email) # {}) =>
            /\ resp'.status = 400
            /\ db' = db
            /\ pc'[p] = "idle"
        /\ (pc[p] = "idle" /\ pc'[p] = "register_insert") =>
            UsersWith(req'[p].email) = {}
        /\ (pc[p] \in {"register_insert", "sso_insert"} /\ pc'[p] = "create_find"
                /\ last = p) =>
            Cardinality({d \in {db'["user"][j] : j \in 1..Len(db'["user"])} :
                            d["email"] = req[p].email}) = 1
      ]_vars

\* C9 happens: two registers raced and two users have one email
C9_Witness ==
    \E d1, d2 \in Stored("user") :
        /\ d1["_id"] # d2["_id"]
        /\ d1["email"] = d2["email"]
        /\ d1["provider"] = "email"
        /\ d2["provider"] = "email"

\* the project the export's lookup resolves to: stored `id` equal to the
\* requested id
Resolved(pid) == {d \in Stored("project") : d["id"] = pid}

\* C3: for a project id that resolves, images and the document format (pptx)
\* answer 200 with an artifact, video answers 501, any other format 400; for
\* one that does not resolve every format answers 404
C3_FormatDispatch ==
    served.op = "export" =>
        IF Resolved(served.project_id) = {}
        THEN resp.status = 404
        ELSE CASE served.format \in {"images", "pptx"} ->
                    resp.status = 200 /\ Len(resp.body) = 1
               [] served.format = "video" -> resp.status = 501
               [] OTHER -> resp.status = 400

\* the stored slides of the exported project
ExportedSlides == (CHOOSE d \in Resolved(served.project_id) : TRUE)["slides"]

\* an images or document export that succeeded
Exported(format) ==
    /\ served.op = "export"
    /\ served.format = format
    /\ resp.status = 200

\* C4: the archive of a project with N slides has N entries (1 when N = 0),
\* the k-th named slide_k.png and drawn from the k-th stored slide
C4_SlideCountOrder ==
    Exported("images") =>
        LET slides == ExportedSlides
            parts == resp.body[1].parts
        IN /\ Len(parts) = IF Len(slides) > 0 THEN Len(slides) ELSE 1
           /\ \A k \in 1..Len(parts) :
                /\ parts[k].name = "slide_" \o ToString(k) \o ".png"
                /\ Len(slides) > 0 =>
                    \A f \in DOMAIN slides[k] : parts[k][f] = slides[k][f]

\* C4 happens: two different slides were exported as images
C4_Witness ==
    /\ Exported("images")
    /\ Len(ExportedSlides) = 2
    /\ ExportedSlides[1] # ExportedSlides[2]

\* C5: in the archive and in the deck the n-th slide shows its text, or
\* "Slide n" when it has none; no slides give one part with "Slide 1"; in the
\* archive a missing bg is #111827 and a missing color is #ffffff
C5_DefaultText ==
    \A format \in {"images", "pptx"} :
        Exported(format) =>
            LET slides == ExportedSlides
                parts == resp.body[1].parts
            IN /\ slides = <<>> => (Len(parts) = 1 /\ parts[1].text = "Slide 1")
               /\ \A n \in 1..Len(slides) :
                    /\ parts[n].text =
                        IF "text" \in DOMAIN slides[n] THEN slides[n]["text"]
                        ELSE "Slide " \o ToString(n)
                    /\ (format = "images" /\ "bg" \notin DOMAIN slides[n]) =>
                            parts[n].bg = "#111827"
                    /\ (format = "images" /\ "color" \notin DOMAIN slides[n]) =>
                            parts[n].color = "#ffffff"

\* C5 happens: a deck was exported whose second slide has no text
C5_Witness ==
    /\ Exported("pptx")
    /\ Len(ExportedSlides) = 2
    /\ "text" \notin DOMAIN ExportedSlides[2]
    /\ resp.body[1].parts[2].text = "Slide 2"

====
